---------------------------- MODULE Spec2Model ----------------------------
(***************************************************************************)
(* A model of the pseudo-random number engines of src/stl/random.h:        *)
(* linear_congruential_engine, xorshift128_engine,                         *)
(* subtract_with_carry_engine and discard_block_engine.                    *)
(*                                                                         *)
(* Machine words are kept at their width.  TLC's integers are 32-bit       *)
(* signed, so an unsigned word of W bits is a little-endian sequence of    *)
(* W/8 bytes (x[1] is the least significant byte) and the arithmetic of    *)
(* the code (wrapping product, sum and difference, shifts, xor, remainder) *)
(* is computed on the bytes.                                               *)
(***************************************************************************)
EXTENDS Integers, Sequences, FiniteSets, TLC

VARIABLES
    plat,     \* the build: widths of uint_fast32_t and of std::size_t
    twin,     \* TRUE when a second instance is driven beside the first
    eng,      \* eng[i]: the engine object i (1, 2)
    ret,      \* ret[i]: the value the last call on engine i returned (<<>>: none)
    op,       \* the last call: [name, inst, v, z]
    nops,     \* number of calls made on engine 1
    done1,    \* calls made on engine 1 since the engines were last level
    done2,    \* calls made on engine 2 since the engines were last level
    startEq,  \* the two objects were identical when done1 was started
    same,     \* so far engine 2 was given the calls of engine 1, in order
    advanced, \* advanced[i]: advancements of engine i since it was
              \* constructed (-1 once it was given a seed)
    sequencer, \* the Sequencer object: its fields and its event timer
    trace,    \* the commands executed and callbacks issued, in order
    drv       \* the last call made on the Sequencer and what was called
              \* since it was last started

vars == <<plat, twin, eng, ret, op, nops, done1, done2, startEq, same, advanced,
          sequencer, trace, drv>>

(***************************************************************************)
(* Bounds of the model.                                                    *)
(***************************************************************************)
MaxOps == 3      \* calls made on engine 1 in one behaviour
MaxZ   == 4      \* largest argument of discard(z)

DiscardVals == {0, 1, MaxZ}

Inst == {1, 2}
NoRet == <<>>
NoWord == <<>>

\* In the behaviours of the engines there is no Sequencer object.
NoSequencer == [N |-> 0]

NoDriver == [call |-> "none", n |-> 0, passAt |-> 0, onlyTicks |-> FALSE]

(***************************************************************************)
(* Words.                                                                  *)
(***************************************************************************)
NBytes(W) == W \div 8

Pow256(k) == CASE k = 0 -> 1 [] k = 1 -> 256 [] k = 2 -> 65536 [] k = 3 -> 16777216

\* 2^k for 0 <= k <= 8
Pow2(k) == CASE k = 0 -> 1 [] k = 1 -> 2 [] k = 2 -> 4 [] k = 3 -> 8 [] k = 4 -> 16
             [] k = 5 -> 32 [] k = 6 -> 64 [] k = 7 -> 128 [] k = 8 -> 256

\* The W-bit word of value n, 0 <= n < 2^31.
Word(n, W) == [i \in 1..NBytes(W) |-> IF i <= 4 THEN (n \div Pow256(i - 1)) % 256 ELSE 0]

\* The W-bit word hi * 2^16 + lo (hi, lo < 2^16): values of 2^31 and above.
WordHL(hi, lo, W) ==
    [i \in 1..NBytes(W) |->
        CASE i = 1 -> lo % 256 [] i = 2 -> lo \div 256
          [] i = 3 -> hi % 256 [] i = 4 -> hi \div 256 [] OTHER -> 0]

AllOnes(W) == [i \in 1..NBytes(W) |-> 255]
ZeroWord(W) == [i \in 1..NBytes(W) |-> 0]

\* x < 2^31: the value fits a TLC integer.
Fits(x) == /\ \A i \in 1..Len(x) : i > 4 => x[i] = 0
           /\ Len(x) >= 4 => x[4] < 128

\* The value of a word that Fits.
Val(x) == x[1] + 256 * x[2] + 65536 * x[3] + 16777216 * x[4]

\* (p + q) mod m for 0 <= p, q < m, without leaving [0, 2^31).
AddMod(p, q, m) == IF p >= m - q THEN p - (m - q) ELSE p + q

\* (p * 256) mod m for 0 <= p < m, without leaving [0, 2^31): for m above
\* 2^16, with m = 256 * q + r, 256 * p = 256 * (p mod q) - r * (p div q)
\* modulo m, and both products stay below m.
Times256Mod(p, m) ==
    IF m <= 65536 THEN (p * 256) % m
    ELSE LET t == 256 * (p % (m \div 256)) - (m % 256) * (p \div (m \div 256))
         IN  IF t < 0 THEN t + m ELSE t

RECURSIVE ModFrom(_, _, _)
\* The value of the bytes i.. of x, modulo m (most significant byte first).
ModFrom(x, m, i) ==
    IF i > Len(x) THEN 0
    ELSE LET hi == ModFrom(x, m, i + 1)
         IN  IF hi = 0 THEN x[i] % m
             ELSE AddMod(Times256Mod(hi, m), x[i] % m, m)

\* x % m of unsigned words, 0 < m < 2^31; the result as an integer.
ModWord(x, m) == ModFrom(x, m, 1)

RECURSIVE MulCarry(_, _, _, _)
MulCarry(x, a, i, carry) ==
    IF i > Len(x) THEN <<>>
    ELSE LET p == x[i] * a + carry
         IN  <<p % 256>> \o MulCarry(x, a, i + 1, p \div 256)

\* a * x in the word's width: the product wraps modulo 2^W (0 <= a < 2^22).
MulWord(x, a) == MulCarry(x, a, 1, 0)

RECURSIVE AddCarry(_, _, _)
AddCarry(x, i, carry) ==
    IF i > Len(x) THEN <<>>
    ELSE LET p == x[i] + carry
         IN  <<p % 256>> \o AddCarry(x, i + 1, p \div 256)

\* x + c in the word's width (0 <= c < 2^31 - 256).
AddWord(x, c) == AddCarry(x, 1, c)

RECURSIVE SubBorrow(_, _, _, _)
SubBorrow(x, y, i, borrow) ==
    IF i > Len(x) THEN <<>>
    ELSE LET d == x[i] - y[i] - borrow
         IN  <<(d + 256) % 256>> \o SubBorrow(x, y, i + 1, IF d < 0 THEN 1 ELSE 0)

\* x - y in the word's width: the difference wraps modulo 2^W.
SubWord(x, y) == SubBorrow(x, y, 1, 0)

\* (signed)x < 0: the top bit of the word.
Negative(x) == x[Len(x)] >= 128

\* x % 2^k of a word (k below the width).
ModPow2(x, k) ==
    [i \in 1..Len(x) |->
        IF 8 * i <= k THEN x[i]
        ELSE IF 8 * (i - 1) < k THEN x[i] % Pow2(k - 8 * (i - 1))
        ELSE 0]

RECURSIVE XorByte(_, _)
XorByte(p, q) ==
    IF p = 0 THEN q
    ELSE IF q = 0 THEN p
    ELSE ((p + q) % 2) + 2 * XorByte(p \div 2, q \div 2)

\* x ^ y
XorWord(x, y) == [i \in 1..Len(x) |-> XorByte(x[i], y[i])]

\* x << k in the word's width
Shl(x, k) ==
    LET q == k \div 8
        r == k % 8
        at(i) == IF i >= 1 THEN x[i] ELSE 0
    IN  [i \in 1..Len(x) |->
            ((at(i - q) * Pow2(r)) % 256) + (at(i - q - 1) \div Pow2(8 - r))]

\* x >> k
Shr(x, k) ==
    LET q == k \div 8
        r == k % 8
        at(i) == IF i <= Len(x) THEN x[i] ELSE 0
    IN  [i \in 1..Len(x) |->
            (at(i + q) \div Pow2(r)) + ((at(i + q + 1) * Pow2(8 - r)) % 256)]

(***************************************************************************)
(* The build.  uint_fast32_t is at least 32 bits wide: 32 on AVR and on    *)
(* 32-bit targets, 64 on LP64 targets; std::size_t is 16, 32 or 64 bits.   *)
(***************************************************************************)
Platforms == { [W |-> 32, SZ |-> 16], [W |-> 64, SZ |-> 64] }


(***************************************************************************)
(* linear_congruential_engine<UIntType, a, c, m>, UIntType uint_fast32_t.  *)
(* An engine object is [kind |-> "lcg", p |-> parameters, lcg |-> word].   *)
(***************************************************************************)
minstd_rand0 == [a |-> 16807, c |-> 0, m |-> 2147483647]
minstd_rand  == [a |-> 48271, c |-> 0, m |-> 2147483647]
\* An instantiation with a non-zero increment (a = 75, c = 74, m = 2^16 + 1).
lcg_c74      == [a |-> 75, c |-> 74, m |-> 65537]

LcgParams == {minstd_rand0, minstd_rand, lcg_c74}

lcg_default_seed == 1

\* max() of the engine, as an integer
LcgMax(p) == p.m - 1

LcgSeedNoDefault(p, value) == Word(ModWord(value, p.m), 8 * Len(value))

\* _seed(value)
LcgSeedValue(p, value) ==
    IF ModWord(value, p.m) = 0 /\ p.c % p.m = 0
    THEN Word(lcg_default_seed, 8 * Len(value))
    ELSE Word(ModWord(value, p.m), 8 * Len(value))

\* linear_congruential_engine(value)
LcgCtor(p, value) == [kind |-> "lcg", p |-> p, lcg |-> LcgSeedValue(p, value)]

\* seed(value)
LcgSeedOp(e, value) == [e EXCEPT !.lcg = LcgSeedValue(e.p, value)]

LcgStepNoMod(e) ==
    LET x == AddWord(MulWord(e.lcg, e.p.a), e.p.c)
    IN  [e |-> [e EXCEPT !.lcg = x], r |-> x]

\* operator()(): lcg_ = (a * lcg_ + c) % m in UIntType, and the value returned
LcgStep(e) ==
    LET x == Word(ModWord(AddWord(MulWord(e.lcg, e.p.a), e.p.c), e.p.m), 8 * Len(e.lcg))
    IN  [e |-> [e EXCEPT !.lcg = x], r |-> x]

\* operator==
LcgEq(l, r) == l.lcg = r.lcg

(***************************************************************************)
(* xorshift128_engine<UIntType>, UIntType a 32-bit unsigned type.          *)
(* An engine object is [kind |-> "xor", buf |-> [0..3 -> word], n |-> n_,  *)
(* oob |-> a write went outside buf_].                                     *)
(***************************************************************************)
XW == 32
state_size == 4
xor_default_seed == 1

Seeds == [k \in 0..(state_size - 1) |->
            CASE k = 0 -> Word(88675123, XW) [] k = 1 -> Word(123456789, XW)
              [] k = 2 -> Word(362436069, XW) [] k = 3 -> Word(521288629, XW)]

\* max(): numeric_limits<result_type>::max() - 1
XorMax == [AllOnes(XW) EXCEPT ![1] = 254]
\* min()
XorMin == ZeroWord(XW)

\* xorshift128_engine()
XorCtor0 == [kind |-> "xor", buf |-> Seeds, n |-> 0, oob |-> FALSE]
\* xorshift128_engine(seed)
XorCtor(seed) == [kind |-> "xor", buf |-> [Seeds EXCEPT ![0] = seed], n |-> 0, oob |-> FALSE]
\* xorshift128_engine(first, last), the four values given as b
XorCtorRange(b) == [kind |-> "xor", buf |-> b, n |-> 0, oob |-> FALSE]

\* n_ after value was written over it.  Of n_ the code reads n_ % state_size
\* and, here, whether n_ < state_size: values of state_size and above are
\* kept modulo state_size.
XorClobber(value) ==
    IF Fits(value) /\ Val(value) < state_size THEN Val(value)
    ELSE state_size + (value[1] % state_size)

\* seed(value): buf_[n_] = value.  std::array::operator[] checks no bound:
\* with n_ >= state_size the write lands outside buf_, which is undefined.
\* The outcomes kept: the word lands in memory that is no field of this
\* object, or it lands on n_, which follows buf_ in the object.
XorSeedOp(e, value) ==
    IF e.n < state_size
    THEN { [e EXCEPT !.buf[e.n] = value] }
    ELSE { [e EXCEPT !.oob = TRUE],
           [e EXCEPT !.oob = TRUE, !.n = XorClobber(value)] }

\* the value without the term of x
XorMixOfW(x, w) == XorWord(w, Shr(w, 19))

\* w ^ (w >> 19) ^ t ^ (t >> 8), t = x ^ (x << 11)
XorMix(x, w) ==
    LET t == XorWord(x, Shl(x, 11))
    IN  XorWord(XorWord(w, Shr(w, 19)), XorWord(t, Shr(t, 8)))

\* operator()() reading w from the slot after the new index
XorStepWAhead(e) ==
    LET n1 == e.n + 1
        x  == e.buf[n1 % state_size]
        w  == e.buf[(n1 + 1) % state_size]
        v  == XorMix(x, w)
    IN  [e |-> [e EXCEPT !.buf[n1 % state_size] = v, !.n = n1], r |-> v]

\* operator()()
XorStep(e) ==
    LET n1 == e.n + 1
        x  == e.buf[n1 % state_size]
        w  == e.buf[(n1 - 1) % state_size]
        v  == XorMix(x, w)
    IN  [e |-> [e EXCEPT !.buf[n1 % state_size] = v, !.n = n1], r |-> v]

\* operator==
XorEq(l, r) == l.buf = r.buf

(***************************************************************************)
(* subtract_with_carry_engine<UIntType, w, s, r>.                          *)
(* An engine object is [kind |-> "swc", p |-> parameters, bits |-> width   *)
(* of UIntType, fast |-> width of uint_fast32_t, sz |-> width of size_t,   *)
(* X |-> [0..r-1 -> word], cy |-> [0..r-1 -> 0..1], i |-> i_].             *)
(***************************************************************************)
\* wide: UIntType is uint_fast64_t, else uint_fast32_t
ranlux24_base == [w |-> 24, s |-> 10, r |-> 24, wide |-> FALSE]
ranlux48_base == [w |-> 48, s |-> 5, r |-> 12, wide |-> TRUE]

SwcParams == {ranlux24_base, ranlux48_base}

swc_default_seed == 19780503

\* A word converted to another unsigned type of W bits.
Resize(x, W) == [k \in 1..NBytes(W) |-> IF k <= Len(x) THEN x[k] ELSE 0]

RECURSIVE Pow2Mod(_, _)
\* 2^k mod r
Pow2Mod(k, r) ==
    IF k = 0 THEN 1 % r
    ELSE IF k % 2 = 1 THEN (2 * Pow2Mod(k - 1, r)) % r
    ELSE (Pow2Mod(k \div 2, r) * Pow2Mod(k \div 2, r)) % r

\* (i - k) % r in size_type: i - k wraps modulo 2^sz when k > i
SwcIndex(e, i, k) ==
    IF i >= k THEN (i - k) % e.p.r
    ELSE (Pow2Mod(e.sz, e.p.r) + i - k) % e.p.r

\* sN(i)
sN(e, i) ==
    SubWord(SubWord(e.X[SwcIndex(e, i, e.p.s)], e.X[SwcIndex(e, i, e.p.r)]),
            Word(e.cy[SwcIndex(e, i, 1)], e.bits))

\* x % M, M = (UIntType)1 << r
SwcModM(e, x) == ModPow2(x, e.p.r)

\* max(): M - 1
SwcMax(e) == ModPow2(AllOnes(e.bits), e.p.r)

\* One pass of the loop of seed(value) at index i: X_[i] = lcg(), then
\* cy_[i] from sN(i).  st is <<the engine, the minstd_rand object lcg>>.
SwcSeedBody(st, i) ==
    CHOOSE done \in
        { << [e1 EXCEPT !.cy[i] = IF Negative(sN(e1, i)) THEN 1 ELSE 0], s1.e >> :
            <<s1, e1>> \in { <<s0, [st[1] EXCEPT !.X[i] = Resize(s0.r, st[1].bits)]>> :
                                s0 \in { LcgStep(st[2]) } } } : TRUE

RECURSIVE SwcSeedLoop(_, _, _)
\* The passes lo .. hi-1 of the loop, in order (the range is halved to keep
\* the evaluation shallow).
SwcSeedLoop(st, lo, hi) ==
    IF lo >= hi THEN st
    ELSE IF hi = lo + 1 THEN SwcSeedBody(st, lo)
    ELSE CHOOSE done \in
            { SwcSeedLoop(mid, lo + (hi - lo) \div 2, hi) :
                mid \in { SwcSeedLoop(st, lo, lo + (hi - lo) \div 2) } } : TRUE

\* seed(value)
SwcSeedOp(e, value) ==
    SwcSeedLoop(<<e, LcgCtor(minstd_rand, Resize(value, e.fast))>>, 0, e.p.r)[1]

\* subtract_with_carry_engine(value): X_(), cy_(), i_(), then seed(value)
SwcCtor(p, value, pl) ==
    LET bits == IF p.wide THEN 64 ELSE pl.W
    IN  SwcSeedOp([kind |-> "swc", p |-> p, bits |-> bits, fast |-> pl.W, sz |-> pl.SZ,
                   X |-> [k \in 0..(p.r - 1) |-> ZeroWord(bits)],
                   cy |-> [k \in 0..(p.r - 1) |-> 0],
                   i |-> 0],
                  Resize(value, bits))

\* i_++ in size_type: the largest value is followed by 0 (a size_type of 64
\* bits is not counted to its end)
SwcIncrement(e) == IF e.sz <= 16 THEN (e.i + 1) % (2 ^ e.sz) ELSE e.i + 1

SwcStepNoMod(e) ==
    LET x == sN(e, e.i)
        k == e.i % e.p.r
    IN  [e |-> [e EXCEPT !.cy[k] = IF Negative(x) THEN 1 ELSE 0,
                         !.X[k] = x, !.i = SwcIncrement(e)],
         r |-> x]

\* operator()()
SwcStep(e) ==
    LET x == sN(e, e.i)
        k == e.i % e.p.r
    IN  [e |-> [e EXCEPT !.cy[k] = IF Negative(x) THEN 1 ELSE 0,
                         !.X[k] = SwcModM(e, x), !.i = SwcIncrement(e)],
         r |-> SwcModM(e, x)]

\* operator==
SwcEq(l, r) == l.X = r.X /\ l.cy = r.cy

(***************************************************************************)
(* The calls of a base engine, by its class.                               *)
(***************************************************************************)
BaseStep(b) ==
    CASE b.kind = "lcg" -> LcgStep(b)
      [] b.kind = "xor" -> XorStep(b)
      [] b.kind = "swc" -> SwcStep(b)

RECURSIVE BaseDiscard(_, _)
\* discard(z) of the base engine: while (z--) (void)operator()();
BaseDiscard(b, z) ==
    IF z = 0 THEN b
    ELSE IF z = 1 THEN BaseStep(b).e
    ELSE CHOOSE done \in
            { BaseDiscard(b1, z - z \div 2) : b1 \in { BaseDiscard(b, z \div 2) } } : TRUE

\* seed(value) of the base engine: the objects it may leave
BaseSeed(b, value) ==
    CASE b.kind = "lcg" -> { LcgSeedOp(b, value) }
      [] b.kind = "xor" -> XorSeedOp(b, value)
      [] b.kind = "swc" -> { SwcSeedOp(b, value) }

\* the default argument of the base engine's seed()
BaseDefaultSeed(b) ==
    CASE b.kind = "lcg" -> Word(lcg_default_seed, 8 * Len(b.lcg))
      [] b.kind = "xor" -> Word(xor_default_seed, XW)
      [] b.kind = "swc" -> Word(swc_default_seed, b.bits)

BaseEq(l, r) ==
    CASE l.kind = "lcg" -> LcgEq(l, r)
      [] l.kind = "xor" -> XorEq(l, r)
      [] l.kind = "swc" -> SwcEq(l, r)

\* max() of a base engine, as a word of its result type
BaseMax(b) ==
    CASE b.kind = "lcg" -> Word(LcgMax(b.p), 8 * Len(b.lcg))
      [] b.kind = "xor" -> XorMax
      [] b.kind = "swc" -> SwcMax(b)

(***************************************************************************)
(* discard_block_engine<Engine, P, R>.                                     *)
(* An engine object is [kind |-> "dbe", P, R, engine |-> the base object,  *)
(* n |-> n_].                                                              *)
(***************************************************************************)
\* discard_block_engine(const Engine&): engine_(other), n_()
DbeCtor(P, R, base) == [kind |-> "dbe", P |-> P, R |-> R, engine |-> base, n |-> 0]

\* seed(): engine_.seed();  seed(value): engine_.seed(value)
DbeSeedOp(e, value) == { [e EXCEPT !.engine = b] : b \in BaseSeed(e.engine, value) }

\* operator()() that never sets the counter back
DbeStepNoReset(e) ==
    LET full == e.n >= e.R
    IN  CHOOSE done \in
            { [e |-> [e EXCEPT !.engine = st.e, !.n = e.n + 1], r |-> st.r] :
                st \in { BaseStep(b1) :
                           b1 \in { IF full THEN BaseDiscard(e.engine, e.P - e.R)
                                    ELSE e.engine } } } : TRUE

\* operator()() without the discard at the end of a block
DbeStepNoSkip(e) ==
    LET n1 == IF e.n >= e.R THEN 0 ELSE e.n
    IN  CHOOSE done \in
            { [e |-> [e EXCEPT !.engine = st.e, !.n = n1 + 1], r |-> st.r] :
                st \in { BaseStep(e.engine) } } : TRUE

\* operator()()
DbeStep(e) ==
    LET full == e.n >= e.R
        n1   == IF full THEN 0 ELSE e.n
    IN  CHOOSE done \in
            { [e |-> [e EXCEPT !.engine = st.e, !.n = n1 + 1], r |-> st.r] :
                st \in { BaseStep(b1) :
                           b1 \in { IF full THEN BaseDiscard(e.engine, e.P - e.R)
                                    ELSE e.engine } } } : TRUE

\* an operator== that compares the counters as well
DbeEqWithCounter(l, r) == BaseEq(l.engine, r.engine) /\ l.n = r.n

\* operator==: lhs.base() == rhs.base()
DbeEq(l, r) == BaseEq(l.engine, r.engine)

\* operator!=: !(lhs == rhs)
DbeNe(l, r) == ~DbeEq(l, r)

\* max(): Engine::max()
DbeMax(e) == BaseMax(e.engine)

\* operator== of two objects of one class
EngEq(l, r) == IF l.kind = "dbe" THEN DbeEq(l, r) ELSE BaseEq(l, r)

\* max() of an object, as a word of its result type
EngMax(e) == IF e.kind = "dbe" THEN DbeMax(e) ELSE BaseMax(e)

ranlux24 == [P |-> 223, R |-> 23, base |-> ranlux24_base]
ranlux48 == [P |-> 389, R |-> 11, base |-> ranlux48_base]
\* A small adaptor over minstd_rand: 2 values used of every block of 3.
dbe_lcg  == [P |-> 3, R |-> 2, base |-> minstd_rand]

(***************************************************************************)
(* discard(z) of each class: while (z--) (void)operator()();               *)
(* The z advancements are made in order; the count is halved to keep the   *)
(* evaluation shallow.                                                     *)
(***************************************************************************)
RECURSIVE LcgDiscardOp(_, _)
LcgDiscardOp(e, z) ==
    IF z = 0 THEN e
    ELSE IF z = 1 THEN LcgStep(e).e
    ELSE CHOOSE done \in
            { LcgDiscardOp(e1, z - z \div 2) : e1 \in { LcgDiscardOp(e, z \div 2) } } : TRUE

RECURSIVE XorDiscardOp(_, _)
XorDiscardOp(e, z) ==
    IF z = 0 THEN e
    ELSE IF z = 1 THEN XorStep(e).e
    ELSE CHOOSE done \in
            { XorDiscardOp(e1, z - z \div 2) : e1 \in { XorDiscardOp(e, z \div 2) } } : TRUE

RECURSIVE SwcDiscardOp(_, _)
SwcDiscardOp(e, z) ==
    IF z = 0 THEN e
    ELSE IF z = 1 THEN SwcStep(e).e
    ELSE CHOOSE done \in
            { SwcDiscardOp(e1, z - z \div 2) : e1 \in { SwcDiscardOp(e, z \div 2) } } : TRUE

\* discard(z) handed to the base engine
DbeDiscardToBase(e, z) == [e EXCEPT !.engine = BaseDiscard(e.engine, z)]

RECURSIVE DbeDiscardOp(_, _)
DbeDiscardOp(e, z) ==
    IF z = 0 THEN e
    ELSE IF z = 1 THEN DbeStep(e).e
    ELSE CHOOSE done \in
            { DbeDiscardOp(e1, z - z \div 2) : e1 \in { DbeDiscardOp(e, z \div 2) } } : TRUE

(***************************************************************************)
(* The values the calls are given.                                         *)
(***************************************************************************)
\* 1622613393: 48271 times it is 2^31 - 1 modulo 2^32
LcgWrapSeed(W) == WordHL(24759, 7569, W)

\* 0, 65537, 2 * (2^31 - 1) and the seed above
LcgSeedVals(W) ==
    { Word(0, W), Word(65537, W), WordHL(65535, 65534, W), LcgWrapSeed(W) }

\* 638954829, the seed whose first output is the all-ones word
XorHighSeed == WordHL(9749, 44365, XW)
XorSeedVals == { Word(xor_default_seed, XW), XorHighSeed }

\* the buffers given to xorshift128_engine(first, last)
XorRanges ==
    { [k \in 0..(state_size - 1) |-> Word(IF k = j THEN 1 ELSE 0, XW)] : j \in {0, 1} }

SwcSeedVals(bits) == { Word(swc_default_seed, bits), Word(1, bits) }

SeedValsOf(e) ==
    CASE e.kind = "lcg" -> LcgSeedVals(8 * Len(e.lcg))
      [] e.kind = "xor" -> XorSeedVals
      [] e.kind = "swc" -> SwcSeedVals(e.bits)

\* The objects a behaviour may start from: each class, constructed from its
\* default seed or from a value.
Ctors(pl) ==
    { LcgCtor(p, v) : p \in LcgParams, v \in {Word(lcg_default_seed, pl.W), AllOnes(pl.W)} }
    \cup { XorCtor0 } \cup { XorCtor(v) : v \in XorSeedVals }
    \cup { XorCtorRange(b) : b \in XorRanges }
    \cup { SwcCtor(p, Word(swc_default_seed, 32), pl) : p \in SwcParams }
    \cup { DbeCtor(d.P, d.R, SwcCtor(d.base, Word(swc_default_seed, 32), pl)) :
             d \in {ranlux24, ranlux48} }
    \cup { DbeCtor(dbe_lcg.P, dbe_lcg.R,
                   LcgCtor(dbe_lcg.base, Word(lcg_default_seed, pl.W))) }

\* The objects the behaviours of two objects start from: one of each class.
TwinCtors(pl) ==
    { LcgCtor(minstd_rand, Word(lcg_default_seed, pl.W)),
      XorCtor0,
      SwcCtor(ranlux24_base, Word(swc_default_seed, 32), pl),
      DbeCtor(dbe_lcg.P, dbe_lcg.R,
              LcgCtor(dbe_lcg.base, Word(lcg_default_seed, pl.W))) }

(***************************************************************************)
(* The record of the calls made on the two objects.                        *)
(***************************************************************************)
SameCall(c, d) == c.name = d.name /\ c.v = d.v /\ c.z = d.z

RECURSIVE Flat(_)
\* The calls of d with each discard(z) written as z advancements.
Flat(d) ==
    IF d = <<>> THEN <<>>
    ELSE LET c == Head(d)
         IN  (CASE c.name = "seed" -> << <<"seed", c.v>> >>
                [] c.name = "next" -> << <<"next", NoWord>> >>
                [] c.name = "discard" -> [k \in 1..c.z |-> <<"next", NoWord>>])
             \o Flat(Tail(d))

IsPrefix(s, t) == Len(s) <= Len(t) /\ SubSeq(t, 1, Len(s)) = s

\* The two objects have been given the same advancements and seeds.
Level == Flat(done1) = Flat(done2)

\* Engine 2 follows engine 1: it repeats the next call of engine 1, or it
\* makes one of the advancements a discard(z) of engine 1 stands for.
Follows(c) ==
    \/ /\ Len(done2) < Len(done1)
       /\ SameCall(done1[Len(done2) + 1], c)
       /\ \A k \in 1..Len(done2) : SameCall(done1[k], done2[k])
    \/ /\ c.name = "next"
       /\ Len(done2) <= MaxZ
       /\ IsPrefix(Flat(Append(done2, c)), Flat(done1))

Verbatim(c) ==
    /\ Len(done2) < Len(done1)
    /\ SameCall(done1[Len(done2) + 1], c)

\* Whether a call may be made on object i now ...
MayCall(i) ==
    IF i = 1
    THEN nops < MaxOps /\ (twin => Level)
    ELSE twin /\ (~Level \/ (done1 # <<>> /\ done2 = <<>>))

\* ... and whether it may be the call name(v) or name(z).
Allowed(i, name, v, z) ==
    MayCall(i) /\ (i = 2 => Follows([name |-> name, v |-> v, z |-> z]))

Track(i, c) ==
    IF ~twin THEN UNCHANGED <<done1, done2, startEq, same>>
    ELSE IF i = 1
    THEN /\ done1' = <<c>>
         /\ done2' = <<>>
         /\ startEq' = (eng[1] = eng[2])
         /\ same' = (same /\ Len(done2) = Len(done1))
    ELSE /\ done2' = Append(done2, c)
         /\ same' = (same /\ Verbatim(c))
         /\ UNCHANGED <<done1, startEq>>

\* A call on object i: it leaves the object e2 and returns r.
Call(i, name, v, z, e2, r) ==
    LET c == [name |-> name, v |-> v, z |-> z, r |-> r]
    IN  /\ eng' = [eng EXCEPT ![i] = e2]
        /\ ret' = [ret EXCEPT ![i] = r]
        /\ op' = [name |-> name, inst |-> i, v |-> v, z |-> z]
        /\ nops' = IF i = 1 THEN nops + 1 ELSE nops
        /\ advanced' = [advanced EXCEPT ![i] =
                           IF name = "seed" \/ advanced[i] < 0 THEN -1
                           ELSE IF name = "next" THEN advanced[i] + 1
                           ELSE advanced[i] + z]
        /\ Track(i, c)
        /\ UNCHANGED <<plat, twin, sequencer, trace, drv>>

(***************************************************************************)
(* The calls.                                                              *)
(***************************************************************************)
LcgSeed(i, v) ==
    /\ eng[i].kind = "lcg"
    /\ Allowed(i, "seed", v, 0)
    /\ \E e2 \in { LcgSeedOp(eng[i], v) } : Call(i, "seed", v, 0, e2, NoRet)

LcgNext(i) ==
    /\ eng[i].kind = "lcg"
    /\ Allowed(i, "next", NoWord, 0)
    /\ \E st \in { LcgStep(eng[i]) } : Call(i, "next", NoWord, 0, st.e, st.r)

LcgDiscard(i, z) ==
    /\ eng[i].kind = "lcg"
    /\ Allowed(i, "discard", NoWord, z)
    /\ \E e2 \in { LcgDiscardOp(eng[i], z) } : Call(i, "discard", NoWord, z, e2, NoRet)

XorSeed(i, v) ==
    /\ eng[i].kind = "xor"
    /\ Allowed(i, "seed", v, 0)
    /\ \E e2 \in XorSeedOp(eng[i], v) : Call(i, "seed", v, 0, e2, NoRet)

XorNext(i) ==
    /\ eng[i].kind = "xor"
    /\ Allowed(i, "next", NoWord, 0)
    /\ \E st \in { XorStep(eng[i]) } : Call(i, "next", NoWord, 0, st.e, st.r)

XorDiscard(i, z) ==
    /\ eng[i].kind = "xor"
    /\ Allowed(i, "discard", NoWord, z)
    /\ \E e2 \in { XorDiscardOp(eng[i], z) } : Call(i, "discard", NoWord, z, e2, NoRet)

SwcSeed(i, v) ==
    /\ eng[i].kind = "swc"
    /\ Allowed(i, "seed", v, 0)
    /\ \E e2 \in { SwcSeedOp(eng[i], v) } : Call(i, "seed", v, 0, e2, NoRet)

SwcNext(i) ==
    /\ eng[i].kind = "swc"
    /\ Allowed(i, "next", NoWord, 0)
    /\ \E st \in { SwcStep(eng[i]) } : Call(i, "next", NoWord, 0, st.e, st.r)

SwcDiscard(i, z) ==
    /\ eng[i].kind = "swc"
    /\ Allowed(i, "discard", NoWord, z)
    /\ \E e2 \in { SwcDiscardOp(eng[i], z) } : Call(i, "discard", NoWord, z, e2, NoRet)

\* seed()
DbeSeed0(i) ==
    /\ eng[i].kind = "dbe"
    /\ \E v \in { BaseDefaultSeed(eng[i].engine) } :
          /\ Allowed(i, "seed", v, 0)
          /\ \E e2 \in DbeSeedOp(eng[i], v) : Call(i, "seed", v, 0, e2, NoRet)

\* seed(value)
DbeSeed(i, v) ==
    /\ eng[i].kind = "dbe"
    /\ Allowed(i, "seed", v, 0)
    /\ \E e2 \in DbeSeedOp(eng[i], v) : Call(i, "seed", v, 0, e2, NoRet)

DbeNext(i) ==
    /\ eng[i].kind = "dbe"
    /\ Allowed(i, "next", NoWord, 0)
    /\ \E st \in { DbeStep(eng[i]) } : Call(i, "next", NoWord, 0, st.e, st.r)

DbeDiscard(i, z) ==
    /\ eng[i].kind = "dbe"
    /\ Allowed(i, "discard", NoWord, z)
    /\ \E e2 \in { DbeDiscardOp(eng[i], z) } : Call(i, "discard", NoWord, z, e2, NoRet)

InitWith(tw) ==
    /\ plat \in Platforms
    /\ twin = tw
    /\ \E e \in (IF tw THEN TwinCtors(plat) ELSE Ctors(plat)) : eng = [i \in Inst |-> e]
    /\ ret = [i \in Inst |-> NoRet]
    /\ op = [name |-> "ctor", inst |-> 0, v |-> NoWord, z |-> 0]
    /\ nops = 0
    /\ done1 = <<>>
    /\ done2 = <<>>
    /\ startEq = TRUE
    /\ same = TRUE
    /\ advanced = [i \in Inst |-> 0]
    /\ sequencer = NoSequencer
    /\ trace = <<>>
    /\ drv = NoDriver

Init == InitWith(FALSE)

InitTwin == InitWith(TRUE)

Next ==
    \E i \in Inst :
        \/ \E v \in LcgSeedVals(plat.W) : LcgSeed(i, v)
        \/ LcgNext(i)
        \/ \E z \in DiscardVals : LcgDiscard(i, z)
        \/ \E v \in XorSeedVals : XorSeed(i, v)
        \/ XorNext(i)
        \/ \E z \in DiscardVals : XorDiscard(i, z)
        \/ \E v \in SwcSeedVals(IF eng[i].kind = "swc" THEN eng[i].bits ELSE 32) : SwcSeed(i, v)
        \/ SwcNext(i)
        \/ \E z \in DiscardVals : SwcDiscard(i, z)
        \/ DbeSeed0(i)
        \/ \E v \in (IF eng[i].kind = "dbe" THEN SeedValsOf(eng[i].engine) ELSE {}) : DbeSeed(i, v)
        \/ DbeNext(i)
        \/ \E z \in DiscardVals : DbeDiscard(i, z)

\* One object driven by any calls.
Spec == Init /\ [][Next]_vars

\* Two objects constructed identically, the second following the first.
SpecTwin == InitTwin /\ [][Next]_vars

(***************************************************************************)
(* What the claims need to speak of a call.                                *)
(***************************************************************************)
\* The step is the call name on object i, an object of class kind.
Called(i, kind, name) ==
    /\ op'.inst = i
    /\ op'.name = name
    /\ eng[i].kind = kind

RECURSIVE LeFrom(_, _, _)
\* x <= y on the bytes 1 .. k of two words of one width
LeFrom(x, y, k) ==
    IF k = 0 THEN TRUE
    ELSE IF x[k] # y[k] THEN x[k] < y[k]
    ELSE LeFrom(x, y, k - 1)

\* x <= y of unsigned words of one width
LeWord(x, y) == LeFrom(x, y, Len(x))

\* (a * x + c) mod m in exact arithmetic: with x < m < 2^31 and a, c < 2^17
\* the sum is below 2^49, and a word of 64 bits holds it.
MathAdvance(p, x) == ModWord(AddWord(MulWord(Resize(x, 64), p.a), p.c), p.m)

(***************************************************************************)
(* C1.  An advancement of the linear congruential engine sets the state to *)
(* the mathematical value (a * x + c) mod m, x the state before, and       *)
(* returns the new state.  (The code multiplies in UIntType, and the       *)
(* product wraps where uint_fast32_t has 32 bits.)                         *)
(***************************************************************************)
C1_AdvanceIsExact ==
    [][ \A i \in Inst :
          Called(i, "lcg", "next") =>
            /\ Fits(eng'[i].lcg)
            /\ Val(eng'[i].lcg) = MathAdvance(eng[i].p, eng[i].lcg)
            /\ ret'[i] = eng'[i].lcg ]_vars

(***************************************************************************)
(* C2.  minstd_rand seeded with 1 returns 48271 and then 182605794 at      *)
(* every width of uint_fast32_t; the third value is 1291394886 where       *)
(* uint_fast32_t is wider than 32 bits and 1291390782 where it has 32.     *)
(* An output of this engine is its state, so the sequence is told by the   *)
(* state each call starts from.                                            *)
(***************************************************************************)
\* The output that follows the state x of minstd_rand, third the third value.
MinstdFollows(i, third) ==
    LET W == plat.W
        x == eng[i].lcg
    IN  /\ x = Word(1, W) => ret'[i] = Word(48271, W)
        /\ x = Word(48271, W) => ret'[i] = Word(182605794, W)
        /\ x = Word(182605794, W) => ret'[i] = Word(third, W)

SeededState(p, v) ==
    LET r == ModWord(v, p.m)
    IN  IF r = 0 /\ p.c % p.m = 0 THEN 1 ELSE r

C3_SeedSetsState ==
    /\ \A pl \in Platforms : \A p \in LcgParams : \A v \in LcgSeedVals(pl.W) :
          LcgCtor(p, v).lcg = Word(SeededState(p, v), pl.W)
    /\ [][ \A i \in Inst :
             Called(i, "lcg", "seed") =>
               /\ eng'[i].lcg = Word(SeededState(eng[i].p, op'.v), plat.W)
               /\ eng'[i].p = eng[i].p ]_vars

\* seed(v) with v mod m = 0 and c mod m = 0, v not 0, on an object whose
\* state was not the default seed, has left the default seed.
C3_DefaultSeedSubstituted ==
    /\ eng[1].kind = "lcg" /\ eng[1].p = minstd_rand
    /\ op.name = "seed" /\ op.inst = 1 /\ nops >= 2
    /\ op.v = WordHL(65535, 65534, plat.W)
    /\ eng[1].lcg = Word(lcg_default_seed, plat.W)

(***************************************************************************)
(* C4.  discard(z) leaves the object that z advancements leave, counters   *)
(* included, for every class and every z, and the advancement that follows *)
(* returns the same value from both.  Object 1 is given discard(z), object *)
(* 2, equal to it before, z advancements; then each is advanced once.      *)
(***************************************************************************)
\* Object 1 was given discard(z) and object 2 z advancements.
DiscardAgainstSteps ==
    /\ twin
    /\ done1 # <<>>
    /\ done1[1].name = "discard"
    /\ Len(done2) = done1[1].z
    /\ \A k \in 1..Len(done2) : done2[k].name = "next"

\* Both objects were advanced once.
BothAdvanced ==
    /\ twin
    /\ done1 # <<>>
    /\ done1[1].name = "next"
    /\ Len(done2) = 1

C4_DiscardIsRepeatedAdvance ==
    /\ (startEq /\ DiscardAgainstSteps) => eng[1] = eng[2]
    /\ (startEq /\ BothAdvanced) => (ret[1] = ret[2] /\ eng[1] = eng[2])

\* A discard(MaxZ) of the adaptor, which passes the end of a block, against
\* MaxZ advancements.
C4_AdaptorDiscarded ==
    /\ startEq
    /\ DiscardAgainstSteps
    /\ done1[1].z = MaxZ
    /\ eng[1].kind = "dbe"
    /\ eng[1].R < MaxZ

(***************************************************************************)
(* C5.  Two objects constructed identically and given the same calls       *)
(* return the same values at every call and compare equal after every      *)
(* call.  (seed(v) of the xorshift engine after four advancements writes   *)
(* outside buf_, see C9: what the two objects do then need not agree.)     *)
(***************************************************************************)
C5_SameCallsSameOutputs ==
    (twin /\ same /\ done1 # <<>> /\ Len(done2) = Len(done1)) =>
        (ret[1] = ret[2] /\ EngEq(eng[1], eng[2]))

(***************************************************************************)
(* C6.  Every value an advancement of the linear congruential engine, of   *)
(* the subtract-with-carry engine or of an adaptor over either returns is  *)
(* at least min() = 0 and at most max() of the object.                     *)
(***************************************************************************)
\* The class of the engine that makes the values of object e.
ValueKind(e) == IF e.kind = "dbe" THEN e.engine.kind ELSE e.kind

C6_OutputsWithinBounds ==
    \A i \in Inst :
        (op.name = "next" /\ op.inst = i /\ ValueKind(eng[i]) \in {"lcg", "swc"}) =>
            /\ LeWord(ZeroWord(8 * Len(ret[i])), ret[i])
            /\ LeWord(ret[i], EngMax(eng[i]))

\* ranlux48_base has returned a value after a discard: its X_ then holds
\* values made by operator() as well as by seed().
C6_SwcValueReturned ==
    /\ eng[1].kind = "swc" /\ eng[1].p = ranlux48_base
    /\ op.name = "next" /\ op.inst = 1
    /\ eng[1].i > MaxZ
    /\ ret[1] # ZeroWord(64)

(***************************************************************************)
(* C7.  max() of the xorshift engine is the largest value of the type      *)
(* less 1, min() is 0, and an advancement from a buffer that is not all    *)
(* zero returns a value between them: never the all-ones word.             *)
(***************************************************************************)
\* The buffer of object e holds a word that is not 0.
NonDegenerate(e) == \E k \in 0..(state_size - 1) : e.buf[k] # ZeroWord(XW)

C7_XorOutputsWithinBounds ==
    /\ XorMin = ZeroWord(XW)
    /\ AddWord(XorMax, 1) = AllOnes(XW)
    /\ [][ \A i \in Inst :
             (Called(i, "xor", "next") /\ NonDegenerate(eng[i]) /\ ~eng[i].oob) =>
                 (LeWord(XorMin, ret'[i]) /\ LeWord(ret'[i], XorMax)) ]_vars

(***************************************************************************)
(* C8.  An advancement of the xorshift engine moves the index on by one    *)
(* modulo 4, takes x from the slot at the new index and w from the slot    *)
(* before it, writes w ^ (w >> 19) ^ t ^ (t >> 8), t = x ^ (x << 11), to   *)
(* the slot at the new index, returns that value and leaves the other      *)
(* three slots as they were.                                               *)
(***************************************************************************)
C8_XorAdvance ==
    [][ \A i \in Inst :
          Called(i, "xor", "next") =>
            LET k == (eng[i].n + 1) % 4
                j == (k + 3) % 4
                x == eng[i].buf[k]
                w == eng[i].buf[j]
                t == XorWord(x, Shl(x, 11))
                v == XorWord(XorWord(XorWord(w, Shr(w, 19)), t), Shr(t, 8))
            IN  /\ eng'[i].n % 4 = k
                /\ eng'[i].buf[k] = v
                /\ ret'[i] = v
                /\ \A h \in (0..3) \ {k} : eng'[i].buf[h] = eng[i].buf[h] ]_vars

\* The fifth advancement: the index has gone round to the slot it began at.
C8_IndexWentRound ==
    /\ eng[1].kind = "xor"
    /\ op.name = "next" /\ op.inst = 1
    /\ eng[1].n = 5
    /\ ~eng[1].oob
    /\ ret[1] = eng[1].buf[1]

(***************************************************************************)
(* C9.  seed(v) of the xorshift engine, after any number of advancements,  *)
(* writes v to one of the four slots, leaves the other three and the index *)
(* as they were, and writes nothing outside the buffer.  (After four       *)
(* advancements n_ is 4 and buf_[n_] is outside buf_.)                     *)
(***************************************************************************)
C9_XorSeedWritesOneSlot ==
    [][ \A i \in Inst :
          (Called(i, "xor", "seed") /\ ~eng[i].oob) =>
            /\ \E k \in 0..(state_size - 1) :
                   eng'[i].buf = [eng[i].buf EXCEPT ![k] = op'.v]
            /\ eng'[i].n = eng[i].n
            /\ ~eng'[i].oob ]_vars

(***************************************************************************)
(* C10.  From a buffer of the xorshift engine that is not all zero, no     *)
(* advancement, by operator() or by discard(z), leaves a buffer that is    *)
(* all zero.                                                               *)
(***************************************************************************)
C10_XorNeverAllZero ==
    [][ \A i \in Inst :
          ((Called(i, "xor", "next") \/ Called(i, "xor", "discard"))
             /\ NonDegenerate(eng[i])) =>
              NonDegenerate(eng'[i]) ]_vars

\* An object constructed from the buffer 0, 1, 0, 0 has been advanced once:
\* w was 0, and the value written is made of x alone.
C10_SparseBufferAdvanced ==
    /\ eng[1].kind = "xor"
    /\ eng[1].n = 1
    /\ op.name = "next" /\ op.inst = 1
    /\ \A k \in {0, 2, 3} : eng[1].buf[k] = ZeroWord(XW)
    /\ eng[1].buf[1] = Word(2057, XW)

(***************************************************************************)
(* C11.  An advancement of the subtract-with-carry engine at position i    *)
(* reads the slots X[(i-s) mod r], X[(i-r) mod r] and cy[(i-1) mod r], mod *)
(* the non-negative remainder, takes their difference and writes the       *)
(* result (reduced as the code reduces it) to slot i mod r, for i < s and  *)
(* i < r as for later positions.  (The code subtracts in size_type: for    *)
(* i < s, i < r and i = 0 the difference wraps modulo 2^16 or 2^64, which  *)
(* is no multiple of r = 24 or r = 12, and another slot is read.)          *)
(***************************************************************************)
\* The raw value of position k of object e, its slots taken by the
\* non-negative remainder.
MathRaw(e, k) ==
    SubWord(SubWord(e.X[(k - e.p.s) % e.p.r], e.X[(k - e.p.r) % e.p.r]),
            Word(e.cy[(k - 1) % e.p.r], e.bits))

C11_SwcReadsLaggedSlots ==
    [][ \A i \in Inst :
          Called(i, "swc", "next") =>
            LET e == eng[i]
                v == SwcModM(e, MathRaw(e, e.i))
            IN  /\ ret'[i] = v
                /\ eng'[i].X = [e.X EXCEPT ![e.i % e.p.r] = v] ]_vars

(***************************************************************************)
(* C12.  An advancement of the subtract-with-carry engine stores and       *)
(* returns raw mod 2^w, and max() is 2^w - 1, for every (w, s, r), w # r   *)
(* included.  raw is the value the code computes.  (The code's modulus is  *)
(* 1 << r: 2^12 for ranlux48_base, whose w is 48.)                         *)
(***************************************************************************)
C12_SwcReducesByWordSize ==
    [][ \A i \in Inst :
          Called(i, "swc", "next") =>
            LET e == eng[i]
                v == ModPow2(sN(e, e.i), e.p.w)
            IN  /\ ret'[i] = v
                /\ eng'[i].X[e.i % e.p.r] = v
                /\ SwcMax(e) = ModPow2(AllOnes(e.bits), e.p.w) ]_vars

(***************************************************************************)
(* C13.  Every carry of the subtract-with-carry engine is 0 or 1, and the  *)
(* carry an advancement writes for position i is 1 exactly when            *)
(* X[(i-s) mod r] - X[(i-r) mod r] - cy[(i-1) mod r] is negative in exact  *)
(* arithmetic.  (The sign the code takes is that of the difference of the  *)
(* slots it reads, which for i < r are other slots: C11.)                  *)
(***************************************************************************)
\* a - b - c < 0 in exact arithmetic, for words a, b below 2^63 and c <= 1
ExactNegative(a, b, c) == ~LeWord(AddWord(b, c), a)

\* The exact raw value of position k of object e is negative.
MathRawNegative(e, k) ==
    ExactNegative(e.X[(k - e.p.s) % e.p.r], e.X[(k - e.p.r) % e.p.r],
                  e.cy[(k - 1) % e.p.r])

C13_SwcCarryIsSignOfRaw ==
    [][ \A i \in Inst :
          eng'[i].kind = "swc" =>
            /\ \A k \in 0..(eng'[i].p.r - 1) : eng'[i].cy[k] \in {0, 1}
            /\ Called(i, "swc", "next") =>
                 eng'[i].cy[eng[i].i % eng[i].p.r]
                   = (IF MathRawNegative(eng[i], eng[i].i) THEN 1 ELSE 0) ]_vars

(***************************************************************************)
(* C14.  seed(v) of the subtract-with-carry engine overwrites all r values *)
(* and all r carries: whatever was done to an object before, after seed(v) *)
(* its X and cy buffers, and the outputs that follow, are those of a newly *)
(* constructed object of the same parameterization after seed(v).          *)
(***************************************************************************)
\* A newly constructed object of e's parameterization, after seed(value).
SwcFreshSeeded(e, value) ==
    SwcSeedOp(SwcCtor(e.p, Word(swc_default_seed, 32), [W |-> e.fast, SZ |-> e.sz]),
              value)

C14_SwcSeedForgetsHistory ==
    [][ \A i \in Inst :
          Called(i, "swc", "seed") =>
            LET other == SwcFreshSeeded(eng[i], op'.v)
            IN  /\ eng'[i].X = other.X
                /\ eng'[i].cy = other.cy
                /\ SwcStep(eng'[i]).r = SwcStep(other).r ]_vars

(***************************************************************************)
(* C15.  For a discard-block adaptor constructed over a base in state B    *)
(* and then only advanced, output number k (from 0) is output number       *)
(* (k div R) * P + (k mod R) of a copy of the base started in B: of every  *)
(* P advancements of the base, the first R are returned.                   *)
(***************************************************************************)
\* The base after m advancements, and its output number m (from 0).
BaseAfter(b, m) == BaseDiscard(b, m)

BaseOutput(b, m) == BaseStep(BaseAfter(b, m))

\* In the behaviours of Spec the second object is never called: it is the
\* object as it was constructed.
Constructed == eng[2]

CadenceIndex(e, k) == (k \div e.R) * e.P + (k % e.R)

C15_DiscardBlockCadence ==
    [][ \A i \in {1} :
          (Called(i, "dbe", "next") /\ advanced[i] >= 0) =>
            LET k   == advanced[i]
                out == BaseOutput(Constructed.engine, CadenceIndex(eng[i], k))
            IN  /\ ret'[i] = out.r
                /\ eng'[i].engine = out.e ]_vars

\* A third output was returned by the adaptor of block size 3 that uses 2.
C15_SkippedAndReturned ==
    /\ eng[1].kind = "dbe"
    /\ eng[1].P = 3 /\ eng[1].R = 2
    /\ op.name = "next"
    /\ advanced[1] = 3
    /\ eng[1].n = 1

(***************************************************************************)
(* C16.  Two discard-block adaptors compare equal exactly when their base  *)
(* engines compare equal, whatever their counters n; operator!= is the     *)
(* negation of operator==.                                                 *)
(***************************************************************************)
C16_AdaptorEqualityIsBaseEquality ==
    (eng[1].kind = "dbe") =>
        /\ DbeEq(eng[1], Constructed) = BaseEq(eng[1].engine, Constructed.engine)
        /\ DbeEq(Constructed, eng[1]) = BaseEq(Constructed.engine, eng[1].engine)
        /\ DbeNe(eng[1], Constructed) = ~DbeEq(eng[1], Constructed)
        /\ (advanced[1] = 0 /\ nops > 0 => DbeEq(eng[1], Constructed))
        /\ (op.name = "seed" /\ BaseEq(eng[1].engine, Constructed.engine)
              => DbeEq(eng[1], Constructed) /\ ~DbeNe(eng[1], Constructed))

\* An adaptor that was advanced and given the seed it was constructed with:
\* its base is that of the constructed object, its counter is not.
C16_EqualBasesOtherCounters ==
    /\ eng[1].kind = "dbe"
    /\ op.name = "seed"
    /\ eng[1].n # Constructed.n
    /\ BaseEq(eng[1].engine, Constructed.engine)

(***************************************************************************)
(* C17.  The counter n of a discard-block adaptor satisfies                *)
(* 0 <= n <= used_block in every reachable state; it is 0 right after      *)
(* construction and at least 1 right after every advancement.              *)
(***************************************************************************)
C17_CounterWithinBlock ==
    \A i \in Inst :
        eng[i].kind = "dbe" =>
            /\ 0 <= eng[i].n /\ eng[i].n <= eng[i].R
            /\ (op.name = "ctor" => eng[i].n = 0)
            /\ (op.inst = i /\ op.name = "next" => eng[i].n >= 1)
            /\ (op.inst = i /\ op.name = "discard" /\ op.z >= 1 => eng[i].n >= 1)

\* An advancement that began a new block: the counter went from R to 1.
C17_CounterWentRound ==
    /\ eng[1].kind = "dbe"
    /\ op.name = "next"
    /\ advanced[1] = eng[1].R + 1
    /\ eng[1].n = 1

(***************************************************************************)
(* The Sequencer (src/src/components/Sequencer.h).                         *)
(*                                                                         *)
(* The object is the record [N, dur, current, wrap, done, exec, timer]:    *)
(* events_ is a sequence of N events of which dur[k + 1] is the duration   *)
(* of the event at position k, current_ is the position 0 .. N-1 of the    *)
(* current event, and timer is event_timer_.  Every event has a command    *)
(* and the client callback is set, so that each execution and each         *)
(* callback shows in the trace as [what, ev].                              *)
(*                                                                         *)
(* The Timer class (utilities/Timer.h) is not part of the source at hand.  *)
(* It is modelled by what the Sequencer relies on: a timer is active       *)
(* between start()/resume() and stop(), measures the time elapsed while    *)
(* it is active, starts measuring anew on start() and reset(), and is      *)
(* expired when it is active and the time elapsed has reached its          *)
(* interval.  Whether an interval of zero expires at once or never is left *)
(* open: both timers are modelled (field zero).                            *)
(***************************************************************************)
MaxCalls == 5

\* A sequence of as many events as a uint8_t has values.
LongEvents == [k \in 1..(2 ^ 8) |-> 1]

\* The durations of the events of the sequences the Sequencer is given.
EventLists == { <<1>>, <<0>>, <<2, 1>>, <<1, 2>>, <<1, 0, 2>>, LongEvents }

\* Time is not followed beyond the longest duration.
MaxElapsed ==
    LET all == UNION { { d[k] : k \in 1..Len(d) } : d \in EventLists }
    IN  1 + CHOOSE d \in all : \A e \in all : d >= e

Effect(what, k) == [what |-> what, ev |-> k]

\* Timer()
TimerCtor(zero) == [active |-> FALSE, interval |-> 0, elapsed |-> 0, zero |-> zero]

TimerStart(t) == [t EXCEPT !.active = TRUE, !.elapsed = 0]

TimerStop(t) == [t EXCEPT !.active = FALSE]

TimerResume(t) == [t EXCEPT !.active = TRUE]

TimerReset(t) == [t EXCEPT !.elapsed = 0]

TimerInterval(t, d) == [t EXCEPT !.interval = d]

TimerActive(t) == t.active

TimerExpired(t) ==
    /\ t.active
    /\ t.elapsed >= t.interval
    /\ (t.interval = 0 => t.zero = "expires")

\* Sequencer(events, callback, wrap)
SequencerCtor(dur, wrapAround, zero) ==
    [N |-> Len(dur), dur |-> dur, current |-> 0, wrap |-> wrapAround,
     done |-> FALSE, exec |-> FALSE, timer |-> TimerCtor(zero)]

\* status()
status(q) ==
    IF TimerActive(q.timer) THEN "Active"
    ELSE IF q.done THEN "Done" ELSE "Idle"

\* index(): static_cast<uint8_t>(std::distance(begin, current_) + 1)
index(q) == (q.current + 1) % (2 ^ 8)

\* The private members work on st = [q |-> the object, fx |-> the commands
\* executed and callbacks issued by the call so far].
\* callback(event, state)
callback(st, k, state) == [st EXCEPT !.fx = Append(@, Effect(state, k))]

\* begin()
begin(st) ==
    LET k  == st.q.current
        s1 == [st EXCEPT !.q.timer = TimerInterval(@, st.q.dur[k + 1])]
        s2 == [s1 EXCEPT !.fx = Append(@, Effect("command", k))]
    IN  callback(s2, k, "Begin")

\* end()
end(st) == callback(st, st.q.current, "End")

\* rewind()
rewind(st) == [st EXCEPT !.q.current = 0, !.q.done = FALSE]

\* stop()
stop(st) == [st EXCEPT !.q.timer = TimerStop(@)]

\* advance() that does not stop the timer after the last event
advanceNoStop(st) ==
    IF st.q.current + 1 = st.q.N
    THEN IF st.q.wrap
         THEN [st EXCEPT !.q.current = 0]
         ELSE [st EXCEPT !.q.done = TRUE]
    ELSE [st EXCEPT !.q.current = @ + 1]

\* advance() that takes no notice of wrap_
advanceNoWrap(st) ==
    IF st.q.current + 1 = st.q.N
    THEN [stop(st) EXCEPT !.q.done = TRUE]
    ELSE [st EXCEPT !.q.current = @ + 1]

\* advance()
advance(st) ==
    IF st.q.current + 1 = st.q.N
    THEN IF st.q.wrap
         THEN [st EXCEPT !.q.current = 0]
         ELSE [stop(st) EXCEPT !.q.done = TRUE]
    ELSE [st EXCEPT !.q.current = @ + 1]

\* start() that does not rewind
startNoRewind(st) ==
    IF status(st.q) # "Active"
    THEN LET s1 == begin(st)
         IN  [s1 EXCEPT !.q.timer = TimerStart(@)]
    ELSE st

\* start()
start(st) ==
    IF status(st.q) # "Active"
    THEN LET s1 == begin(rewind(st))
         IN  [s1 EXCEPT !.q.timer = TimerStart(@)]
    ELSE st

\* reset()
reset(st) ==
    LET s1 == rewind(st)
    IN  IF status(s1.q) = "Active"
        THEN begin([s1 EXCEPT !.q.timer = TimerReset(@)])
        ELSE [s1 EXCEPT !.q.timer = TimerInterval(@, 0)]

\* resume()
resume(st) ==
    IF status(st.q) = "Idle"
    THEN IF st.q.timer.interval = 0
         THEN start(st)
         ELSE LET s1 == IF st.q.exec THEN [begin(st) EXCEPT !.q.exec = FALSE] ELSE st
              IN  [s1 EXCEPT !.q.timer = TimerResume(@)]
    ELSE st

\* next()
next(st) ==
    LET k == IF st.q.current + 1 = st.q.N THEN 0 ELSE st.q.current + 1
    IN  [st EXCEPT !.q.current = k, !.q.exec = TRUE,
                   !.q.timer = TimerReset(TimerInterval(@, st.q.dur[k + 1]))]

\* prev()
prev(st) ==
    LET k == (IF st.q.current = 0 THEN st.q.N ELSE st.q.current) - 1
    IN  [st EXCEPT !.q.current = k, !.q.exec = TRUE,
                   !.q.timer = TimerReset(TimerInterval(@, st.q.dur[k + 1]))]

\* wrap(bool)
wrap(st, value) == [st EXCEPT !.q.wrap = value]

\* tick() that does not advance to the next event
tickNoAdvance(st) ==
    IF TimerExpired(st.q.timer)
    THEN LET s1 == end(st)
         IN  IF status(s1.q) = "Active" THEN begin(s1) ELSE s1
    ELSE st

\* tick(), and clock(), which calls it
tick(st) ==
    IF TimerExpired(st.q.timer)
    THEN LET s1 == advance(end(st))
         IN  IF status(s1.q) = "Active" THEN begin(s1) ELSE s1
    ELSE st

(***************************************************************************)
(* The calls on the Sequencer.  drv records the last call, the number of   *)
(* calls, where in the trace the last start() that started the sequence    *)
(* began (passAt), and whether only tick() was called since (onlyTicks).   *)
(***************************************************************************)
\* The call name leaves the object and the effects of st.
SeqCall(name, st) ==
    LET started == name = "start" /\ status(sequencer) # "Active"
    IN  /\ drv.n < MaxCalls
        /\ sequencer' = st.q
        /\ trace' = trace \o st.fx
        /\ drv' = [call |-> name, n |-> drv.n + 1,
                   passAt |-> IF started THEN Len(trace) ELSE drv.passAt,
                   onlyTicks |-> IF started THEN TRUE
                                 ELSE drv.onlyTicks /\ name = "tick"]
        /\ UNCHANGED <<plat, twin, eng, ret, op, nops, done1, done2, startEq, same,
                       advanced>>

Entry == [q |-> sequencer, fx |-> <<>>]

Start == SeqCall("start", start(Entry))

Stop == SeqCall("stop", stop(Entry))

Reset == SeqCall("reset", reset(Entry))

Resume == SeqCall("resume", resume(Entry))

NextEvent == SeqCall("next", next(Entry))

PrevEvent == SeqCall("prev", prev(Entry))

Wrap(value) == SeqCall("wrap", wrap(Entry, value))

Tick == SeqCall("tick", tick(Entry))

\* Time passes while the event timer runs.
Elapse ==
    /\ TimerActive(sequencer.timer)
    /\ sequencer.timer.elapsed < MaxElapsed
    /\ sequencer' = [sequencer EXCEPT !.timer.elapsed = @ + 1]
    /\ UNCHANGED <<plat, twin, eng, ret, op, nops, done1, done2, startEq, same,
                   advanced, trace, drv>>

InitSeq ==
    /\ plat = [W |-> 32, SZ |-> 16]
    /\ twin = FALSE
    /\ eng = [i \in Inst |-> [kind |-> "none"]]
    /\ ret = [i \in Inst |-> NoRet]
    /\ op = [name |-> "ctor", inst |-> 0, v |-> NoWord, z |-> 0]
    /\ nops = 0
    /\ done1 = <<>>
    /\ done2 = <<>>
    /\ startEq = TRUE
    /\ same = TRUE
    /\ advanced = [i \in Inst |-> 0]
    /\ \E dur \in EventLists, w \in BOOLEAN, zero \in {"expires", "never"} :
          sequencer = SequencerCtor(dur, w, zero)
    /\ trace = <<>>
    /\ drv = [call |-> "ctor", n |-> 0, passAt |-> 0, onlyTicks |-> FALSE]

NextSeq ==
    \/ Start
    \/ Stop
    \/ Reset
    \/ Resume
    \/ NextEvent
    \/ PrevEvent
    \/ \E value \in BOOLEAN : Wrap(value)
    \/ Tick
    \/ Elapse

\* One Sequencer driven by any calls while time passes.
SpecSeq == InitSeq /\ [][NextSeq]_vars

(***************************************************************************)
(* What the claims need to speak of a call on the Sequencer.               *)
(***************************************************************************)
\* The step is the call name.
SeqCalled(name) == drv'.n = drv.n + 1 /\ drv'.call = name

\* What was executed and issued since the sequence was last started.
Pass == SubSeq(trace, drv.passAt + 1, Len(trace))

\* The j-th entry of a pass in which every event is executed in order.
InOrder(j) ==
    Effect(CASE (j - 1) % 3 = 0 -> "command"
             [] (j - 1) % 3 = 1 -> "Begin"
             [] (j - 1) % 3 = 2 -> "End",
           ((j - 1) \div 3) % sequencer.N)

PassInOrder ==
    /\ \A j \in 1..Len(Pass) : Pass[j] = InOrder(j)
    /\ (~sequencer.wrap => Len(Pass) <= 3 * sequencer.N)

LastIs(fx) ==
    /\ Len(trace) >= Len(fx)
    /\ SubSeq(trace, Len(trace) - Len(fx) + 1, Len(trace)) = fx

(***************************************************************************)
(* C18.  After start() on a non-empty sequence, driven only by tick(), the *)
(* events are executed strictly in order: the command and the Begin        *)
(* callback of event k+1 come only after the End callback of event k,      *)
(* which comes only after the timer of event k has expired; no event is    *)
(* skipped or executed twice within one pass.                              *)
(***************************************************************************)
C18_EventsInOrder ==
    [][ /\ drv'.onlyTicks => PassInOrder'
        /\ (SeqCalled("tick") /\ drv.onlyTicks /\ trace' # trace) =>
              /\ TimerExpired(sequencer.timer)
              /\ sequencer.timer.interval = sequencer.dur[sequencer.current + 1]
              /\ trace'[Len(trace) + 1] = Effect("End", sequencer.current) ]_vars

\* A pass over three events, all of them executed and ended by tick().
C18_ThreeEventsEnded ==
    /\ sequencer.N = 3
    /\ drv.onlyTicks
    /\ Len(Pass) = 9

C20_WrapsToFirstEvent ==
    [][ /\ (/\ SeqCalled("tick")
            /\ sequencer.wrap
            /\ sequencer.current + 1 = sequencer.N
            /\ TimerExpired(sequencer.timer))
           => /\ trace' = trace \o << Effect("End", sequencer.N - 1),
                                      Effect("command", 0), Effect("Begin", 0) >>
              /\ sequencer'.current = 0
              /\ status(sequencer') = "Active"
        /\ (sequencer.wrap /\ status(sequencer) # "Done")
           => status(sequencer') # "Done" ]_vars

\* The last of several events ended and the first one began again.
C20_WrappedAround ==
    /\ sequencer.wrap
    /\ sequencer.N > 1
    /\ drv.call = "tick"
    /\ drv.onlyTicks
    /\ LastIs(<< Effect("End", sequencer.N - 1), Effect("command", 0),
                 Effect("Begin", 0) >>)

(***************************************************************************)
(* C21.  resume() called after stop() on a running sequence continues at   *)
(* the event that was current when it was stopped, whatever the duration   *)
(* of that event, zero included: the current event is unchanged and        *)
(* status() becomes Active; resume() changes nothing when status() is      *)
(* Active or Done.                                                         *)
(***************************************************************************)
\* The sequence was stopped while it ran its current event.
StoppedRunning ==
    /\ drv.call = "stop"
    /\ status(sequencer) = "Idle"
    /\ LastIs(<<Effect("Begin", sequencer.current)>>)

C21_ResumeKeepsCurrentEvent ==
    [][ SeqCalled("resume") =>
          /\ StoppedRunning =>
                /\ sequencer'.current = sequencer.current
                /\ status(sequencer') = "Active"
          /\ status(sequencer) \in {"Active", "Done"} =>
                /\ sequencer' = sequencer
                /\ trace' = trace ]_vars

(***************************************************************************)
(* C22.  start() changes nothing when status() is Active (current event,   *)
(* done flag, timer, no command, no callback); when status() is Idle or    *)
(* Done it makes the first event current, clears Done, executes the first  *)
(* event's command once with a Begin callback and makes status() Active.   *)
(***************************************************************************)
C22_StartOnlyWhenNotActive ==
    [][ SeqCalled("start") =>
          IF status(sequencer) = "Active"
          THEN /\ sequencer' = sequencer
               /\ trace' = trace
          ELSE /\ sequencer'.current = 0
               /\ ~sequencer'.done
               /\ trace' = trace \o << Effect("command", 0), Effect("Begin", 0) >>
               /\ status(sequencer') = "Active" ]_vars

\* A sequence of several events that was done has been started again.
C22_StartedAgainWhenDone ==
    /\ drv.call = "start"
    /\ sequencer.N > 1
    /\ ~sequencer.wrap
    /\ LastIs(<< Effect("End", sequencer.N - 1), Effect("command", 0),
                 Effect("Begin", 0) >>)

(***************************************************************************)
(* C23.  In every reachable state of a subtract-with-carry engine, after   *)
(* construction, after seed(v) and after any number of advancements,       *)
(* every value slot X[k], 0 <= k < r, lies in [0, 2^w).                    *)
(***************************************************************************)
C23_SwcSlotsBelowWordSize ==
    \A i \in Inst :
        eng[i].kind = "swc" =>
            \A k \in 0..(eng[i].p.r - 1) :
                eng[i].X[k] = ModPow2(eng[i].X[k], eng[i].p.w)

(***************************************************************************)
(* C24.  Equal engines have equal futures: for each class of engine, if    *)
(* two reachable objects compare equal under operator==, one advancement   *)
(* of each returns the same value and leaves them comparing equal.         *)
(***************************************************************************)
\* operator()() of an object of any class
EngStep(e) == IF e.kind = "dbe" THEN DbeStep(e) ELSE BaseStep(e)

\* The object that was called and the object as it was constructed are two
\* reachable objects of one class.
C24_EqualEnginesEqualFutures ==
    EngEq(eng[1], Constructed) =>
        LET a == EngStep(eng[1])
            b == EngStep(Constructed)
        IN  /\ a.r = b.r
            /\ EngEq(a.e, b.e)

(***************************************************************************)
(* C25.  After seed(v) (or seed()) on a discard-block adaptor in any       *)
(* reachable state, the adaptor returns the same outputs as a newly        *)
(* constructed discard_block_engine(v) (or a default-constructed one):     *)
(* seeding starts the discard cycle again at the beginning of a block.     *)
(***************************************************************************)
\* Engine(value): a base of the class and build of b, constructed from value
BaseCtor(b, value) ==
    CASE b.kind = "lcg" -> LcgCtor(b.p, value)
      [] b.kind = "xor" -> XorCtor(value)
      [] b.kind = "swc" -> SwcCtor(b.p, value, [W |-> b.fast, SZ |-> b.sz])

RECURSIVE EngOutputs(_, _)
\* The next k values an object returns.
EngOutputs(e, k) ==
    IF k = 0 THEN <<>>
    ELSE CHOOSE out \in
            { <<st.r>> \o EngOutputs(st.e, k - 1) : st \in { EngStep(e) } } : TRUE

C25_SeedRestartsBlock ==
    [][ \A i \in Inst :
          Called(i, "dbe", "seed") =>
            LET fresh == DbeCtor(eng[i].P, eng[i].R, BaseCtor(eng[i].engine, op'.v))
            IN  EngOutputs(eng'[i], 3) = EngOutputs(fresh, 3) ]_vars

(***************************************************************************)
(* C26.  For the minimal-standard presets (c = 0, m = 2^31 - 1, a = 16807  *)
(* or 48271) the state lies in [1, m - 1] in every state reached by        *)
(* construction from any seed, seed(v), advancement and discard: it is     *)
(* never 0, so the engine never enters the all-zero cycle.                 *)
(***************************************************************************)
C26_MinstdStateNeverZero ==
    \A i \in Inst :
        (eng[i].kind = "lcg" /\ eng[i].p \in {minstd_rand0, minstd_rand}) =>
            /\ eng[i].lcg # ZeroWord(8 * Len(eng[i].lcg))
            /\ LeWord(eng[i].lcg, Word(LcgMax(eng[i].p), 8 * Len(eng[i].lcg)))

(***************************************************************************)
(* A subtract-with-carry engine that has been advanced almost as often as  *)
(* a size_type of 16 bits counts: ranlux24_base as constructed, after      *)
(* discard(2^16 - 2).                                                      *)
(***************************************************************************)
LongDiscard == 2 ^ 16 - 2

InitWrap ==
    /\ plat = [W |-> 32, SZ |-> 16]
    /\ twin = FALSE
    /\ \E e \in { SwcDiscardOp(SwcCtor(ranlux24_base, Word(swc_default_seed, 32), plat),
                               LongDiscard) } :
          eng = [i \in Inst |-> e]
    /\ ret = [i \in Inst |-> NoRet]
    /\ op = [name |-> "discard", inst |-> 0, v |-> NoWord, z |-> LongDiscard]
    /\ nops = 0
    /\ done1 = <<>>
    /\ done2 = <<>>
    /\ startEq = TRUE
    /\ same = TRUE
    /\ advanced = [i \in Inst |-> LongDiscard]
    /\ sequencer = NoSequencer
    /\ trace = <<>>
    /\ drv = NoDriver

NextWrap ==
    \E i \in Inst :
        \/ \E v \in SwcSeedVals(eng[i].bits) : SwcSeed(i, v)
        \/ SwcNext(i)
        \/ \E z \in DiscardVals : SwcDiscard(i, z)

\* One engine whose position counter is about to wrap around.
SpecWrap == InitWrap /\ [][NextWrap]_vars

(***************************************************************************)
(* C27.  Successive advancements of the subtract-with-carry engine write   *)
(* the value and carry slots in the order 0, 1, ..., r-1, 0, 1, ...: the   *)
(* advancement number n (from 0) writes slot n mod r and no other, also    *)
(* when the position counter i wraps around the largest value of its       *)
(* unsigned type and r is not a power of two.                              *)
(***************************************************************************)
C27_SwcWritesRoundRobin ==
    [][ \A i \in Inst :
          (Called(i, "swc", "next") /\ advanced[i] >= 0) =>
            LET slot == advanced[i] % eng[i].p.r
            IN  /\ eng'[i].X[slot] = ret'[i]
                /\ \A k \in 0..(eng[i].p.r - 1) :
                      k # slot => /\ eng'[i].X[k] = eng[i].X[k]
                                  /\ eng'[i].cy[k] = eng[i].cy[k] ]_vars

(***************************************************************************)
(* The check made by xorshift128_engine(first, last):                      *)
(*   assert(std::accumulate(buf_.begin(), buf_.end(), 0) != 0).            *)
(* The accumulator has the type of the initial value 0, int: each sum      *)
(* acc + *it is made in the unsigned type of the values and converted back *)
(* to int, which keeps its low bits.                                       *)
(***************************************************************************)
\* The width of int: 16 bits on the build with a size_t of 16 bits, else 32.
IntBits(pl) == IF pl.SZ = 16 THEN 16 ELSE 32

\* x + y in the word's width
PlusWord(x, y) == SubWord(x, SubWord(ZeroWord(8 * Len(x)), y))

RECURSIVE Accumulate(_, _, _, _)
\* std::accumulate over the slots k .. state_size - 1, from acc
Accumulate(b, k, acc, bits) ==
    IF k = state_size THEN acc
    ELSE Accumulate(b, k + 1, ModPow2(PlusWord(acc, b[k]), bits), bits)

\* The assertion holds.
XorRangeAssert(b, pl) == Accumulate(b, 0, ZeroWord(XW), IntBits(pl)) # ZeroWord(XW)

\* A construction the assertion ended leaves no object.
NoObject == [kind |-> "aborted"]

\* xorshift128_engine(first, last) with its assertion
XorCtorRangeAsserted(b, pl) == IF XorRangeAssert(b, pl) THEN XorCtorRange(b) ELSE NoObject

\* The ranges given: all zero, a single 1, values whose sum is 2^32, and a
\* value that is a multiple of 2^16.
RangeOf(a, b) ==
    [k \in 0..(state_size - 1) |->
        CASE k = 0 -> a [] k = 1 -> b [] OTHER -> ZeroWord(XW)]

RangeInputs ==
    XorRanges \cup
    { RangeOf(ZeroWord(XW), ZeroWord(XW)),
      RangeOf(WordHL(32768, 0, XW), WordHL(32768, 0, XW)),
      RangeOf(Word(1, XW), AllOnes(XW)),
      RangeOf(WordHL(3, 0, XW), ZeroWord(XW)),
      RangeOf(Word(7, XW), Word(9, XW)) }

InitRange ==
    /\ plat \in Platforms
    /\ twin = FALSE
    /\ \E b \in RangeInputs :
          /\ eng = [i \in Inst |-> XorCtorRangeAsserted(b, plat)]
          /\ op = [name |-> "ctor", inst |-> 0, v |-> b, z |-> 0]
    /\ ret = [i \in Inst |-> NoRet]
    /\ nops = 0
    /\ done1 = <<>>
    /\ done2 = <<>>
    /\ startEq = TRUE
    /\ same = TRUE
    /\ advanced = [i \in Inst |-> 0]
    /\ sequencer = NoSequencer
    /\ trace = <<>>
    /\ drv = NoDriver

NextRange ==
    \E i \in Inst :
        \/ \E v \in XorSeedVals : XorSeed(i, v)
        \/ XorNext(i)
        \/ \E z \in DiscardVals : XorDiscard(i, z)

\* One xorshift engine constructed from a range of four values.
SpecRange == InitRange /\ [][NextRange]_vars

(***************************************************************************)
(* C28.  Constructing the xorshift engine from a sequence of four values   *)
(* trips the constructor's assertion exactly when all four values are      *)
(* zero; every sequence with a value that is not zero passes it, also when *)
(* the sum of the values wraps to zero in the accumulator's type.          *)
(***************************************************************************)
C28_AssertionTripsOnlyOnAllZero ==
    op.name = "ctor" =>
        ((eng[1] = NoObject) <=> (\A k \in 0..(state_size - 1) : op.v[k] = ZeroWord(XW)))

(***************************************************************************)
(* C29.  Over any interleaving of start(), stop(), resume(), reset(),      *)
(* next(), prev() and tick() on a non-empty sequence, every End callback   *)
(* of an event is preceded by a Begin callback (and the command) of that   *)
(* same event, with no callback of another event in between.               *)
(***************************************************************************)
IsCallback(x) == x.what \in {"Begin", "End"}

\* Entry j of the trace is the Begin callback of event k, right after its
\* command, and no callback after it and before entry n is of another event.
BeganAt(j, k, n) ==
    /\ j > 1
    /\ trace[j] = Effect("Begin", k)
    /\ trace[j - 1] = Effect("command", k)
    /\ \A m \in (j + 1)..(n - 1) : IsCallback(trace[m]) => trace[m].ev = k

C29_EndFollowsItsBegin ==
    \A n \in 1..Len(trace) :
        trace[n].what = "End" => \E j \in 1..(n - 1) : BeganAt(j, trace[n].ev, n)

(***************************************************************************)
(* C30.  For a Sequencer constructed over a non-empty sequence of N        *)
(* events, after any calls of start(), stop(), resume(), reset(), next(),  *)
(* prev() and tick(), with wrap on or off, the current event is one of the *)
(* N events, so index() is in [1, N]; next() on the last event makes the   *)
(* first current and prev() on the first makes the last current.           *)
(***************************************************************************)
CurrentIsAnEvent ==
    /\ sequencer.current \in 0..(sequencer.N - 1)
    /\ index(sequencer) \in 1..sequencer.N

C30_CurrentEventInRange ==
    [][ /\ CurrentIsAnEvent'
        /\ (SeqCalled("next") /\ sequencer.current = sequencer.N - 1)
              => sequencer'.current = 0
        /\ (SeqCalled("prev") /\ sequencer.current = 0)
              => sequencer'.current = sequencer.N - 1 ]_vars

=============================================================================
